---- MODULE Spec2Model ----
(***************************************************************************)
(* Verification model of the stochastic-models library:                    *)
(*   - the KCA Kalman filter state (KcaStates), its facade                 *)
(*     (KineticComponents) and the JSON state codec;                       *)
(*   - the Ornstein-Uhlenbeck and General-Linear likelihood components,    *)
(*     batch and incremental;                                              *)
(*   - the life cycle of the opaque callback contexts handed to the        *)
(*     numeric primitives.                                                 *)
(* Real numbers (double) are modelled as exact rationals <<num, den>> in   *)
(* lowest terms with a positive denominator.                               *)
(***************************************************************************)
EXTENDS Integers, Sequences, FiniteSets, TLC

(***************************************************************************)
(* Bounds of the model.                                                    *)
(***************************************************************************)
\* Number of accepted state-changing KCA calls explored on one instance.
MaxOps == 4

\* Largest sample value of the series fed to the likelihood estimators.
MaxSample == 2

\* Longest series fed to the likelihood estimators.
MaxSeriesLen == 3

\* Half the width, in grid steps, of the brackets handed to the root finder.
MaxWidth == 2

\* Largest number of values asked of a simulation.
MaxSize == 3

(***************************************************************************)
(* Rational arithmetic standing for double arithmetic.                     *)
(***************************************************************************)
Abs(x) == IF x < 0 THEN -x ELSE x

RECURSIVE GCD(_, _)
GCD(a, b) == IF b = 0 THEN a ELSE GCD(b, a % b)

RatNorm(n, d) ==
    LET g == GCD(Abs(n), Abs(d))
        s == IF d < 0 THEN -1 ELSE 1
    IN  IF n = 0 THEN <<0, 1>> ELSE <<(s * n) \div g, (s * d) \div g>>

Rat(n) == <<n, 1>>

\* Sums and products cancel common factors before multiplying, which keeps
\* the intermediate integers small.
RatAdd(a, b) ==
    LET g == GCD(a[2], b[2])
    IN  RatNorm(a[1] * (b[2] \div g) + b[1] * (a[2] \div g), (a[2] \div g) * b[2])

RatSub(a, b) == RatAdd(a, <<-b[1], b[2]>>)

RatMul(a, b) ==
    LET g1 == GCD(Abs(a[1]), b[2])
        g2 == GCD(Abs(b[1]), a[2])
    IN  IF a[1] = 0 \/ b[1] = 0
        THEN <<0, 1>>
        ELSE RatNorm((a[1] \div g1) * (b[1] \div g2), (a[2] \div g2) * (b[2] \div g1))

RatDiv(a, b) == RatMul(a, RatNorm(b[2], b[1]))

RECURSIVE RatSum(_)
RatSum(s) == IF s = <<>> THEN Rat(0) ELSE RatAdd(s[1], RatSum(Tail(s)))

(***************************************************************************)
(* boost::numeric::ublas vectors and matrices: a vector is a sequence of   *)
(* rationals, a matrix a sequence of rows.                                 *)
(***************************************************************************)
Rows(A) == Len(A)

Cols(A) == Len(A[1])

trans(A) == [j \in 1..Cols(A) |-> [i \in 1..Rows(A) |-> A[i][j]]]

prod(A, B) ==
    [i \in 1..Rows(A) |->
        [j \in 1..Cols(B) |->
            RatSum([k \in 1..Cols(A) |-> RatMul(A[i][k], B[k][j])])]]

prodVec(A, v) ==
    [i \in 1..Rows(A) |-> RatSum([k \in 1..Cols(A) |-> RatMul(A[i][k], v[k])])]

MatAdd(A, B) == [i \in 1..Rows(A) |-> [j \in 1..Cols(A) |-> RatAdd(A[i][j], B[i][j])]]

MatSub(A, B) == [i \in 1..Rows(A) |-> [j \in 1..Cols(A) |-> RatSub(A[i][j], B[i][j])]]

VecAdd(u, v) == [i \in 1..Len(u) |-> RatAdd(u[i], v[i])]

VecScale(u, c) == [i \in 1..Len(u) |-> RatMul(u[i], c)]

add_scalar_to_matrix(A, c) == [i \in 1..Rows(A) |-> [j \in 1..Cols(A) |-> RatAdd(A[i][j], c)]]

add_scalar_to_vector(u, c) == [i \in 1..Len(u) |-> RatAdd(u[i], c)]

\* matrix<double>(r, c) and vector<double>(n): storage of indeterminate
\* content, all cells showing the value g that happens to be in memory.
NewMatrix(r, c, g) == [i \in 1..r |-> [j \in 1..c |-> g]]

NewVector(n, g) == [i \in 1..n |-> g]

\* The values indeterminate storage may show.
Garbage == {Rat(0), Rat(2)}

\* KcaStates::move_std_vector_to_vector / move_std_vectors_to_matrix: the
\* values of the source are moved over the leading cells of the target
\* (of each of its leading rows); the other cells keep their values.
\* A variant of move_std_vector_to_vector that moves nothing.
SetVector_keeping(target, src) == target

SetVector(target, src) ==
    [i \in 1..Len(target) |-> IF i <= Len(src) THEN src[i] ELSE target[i]]

SetMatrix(target, src) ==
    [i \in 1..Rows(target) |->
        IF i <= Rows(src) THEN SetVector(target[i], src[i]) ELSE target[i]]

(***************************************************************************)
(* Likelihood components (ornstein_uhlenbeck_likelihood.cpp,               *)
(* general_linear_likelihood.cpp).  A series is a non-empty sequence of    *)
(* rationals; data[1] is the oldest observation x_0.                       *)
(***************************************************************************)
valuesSquared(data) == [i \in 1..Len(data) |-> RatMul(data[i], data[i])]

\* std::reduce(first, last, 0.0) over data[from..to].
Reduce(data, from, to) == RatSum(SubSeq(data, from, to))

\* std::inner_product of data[1..n-1] with data[2..n].
InnerProductLagLead(data) ==
    RatSum([i \in 1..(Len(data) - 1) |-> RatMul(data[i], data[i + 1])])

OU_calculateLeadSum(data) == Reduce(data, 2, Len(data))

OU_calculateLagSum(data) == Reduce(data, 1, Len(data) - 1)

OU_calculateLeadSumSquared(data) == Reduce(valuesSquared(data), 2, Len(data))

OU_calculateLagSumSquared(data) == Reduce(valuesSquared(data), 1, Len(data) - 1)

OU_calculateLeadLagSumProduct(data) == InnerProductLagLead(data)

OU_calculateComponents(data) ==
    [lead_sum |-> OU_calculateLeadSum(data),
     lag_sum |-> OU_calculateLagSum(data),
     lead_sum_squared |-> OU_calculateLeadSumSquared(data),
     lag_sum_squared |-> OU_calculateLagSumSquared(data),
     lead_lag_sum_product |-> OU_calculateLeadLagSumProduct(data),
     n_obs |-> Len(data)]

OU_updateLeadSum(lead_sum, new_observation) == RatAdd(lead_sum, new_observation)

\* A variant of updateLagSum that leaves the sum as it is.
OU_updateLagSum_stale(lag_sum, last_observation) == lag_sum

OU_updateLagSum(lag_sum, last_observation) == RatAdd(lag_sum, last_observation)

OU_updateLeadSumSquared(lead_sum_squared, new_observation) ==
    RatAdd(lead_sum_squared, RatMul(new_observation, new_observation))

OU_updateLagSumSquared(lag_sum_squared, last_observation) ==
    RatAdd(lag_sum_squared, RatMul(last_observation, last_observation))

OU_updateLeadLagSumProduct(lead_lag_sum_product, new_observation, last_observation) ==
    RatAdd(lead_lag_sum_product, RatMul(last_observation, new_observation))

OU_updateComponents(components, new_observation, last_observation) ==
    [lead_sum |-> OU_updateLeadSum(components.lead_sum, new_observation),
     lag_sum |-> OU_updateLagSum(components.lag_sum, last_observation),
     lead_sum_squared |->
         OU_updateLeadSumSquared(components.lead_sum_squared, new_observation),
     lag_sum_squared |->
         OU_updateLagSumSquared(components.lag_sum_squared, last_observation),
     lead_lag_sum_product |->
         OU_updateLeadLagSumProduct(components.lead_lag_sum_product,
                                    new_observation, last_observation),
     n_obs |-> components.n_obs + 1]

\* calculateMu: the closed-form estimate of mu, a quotient of two
\* polynomials in the components.  The quotient is kept as the pair
\* <<numerator, denominator>> because the denominator may vanish (a double
\* division then yields inf or NaN, never a failure).
OU_calculateMu(c) ==
    LET n == Rat(c.n_obs)
        num == RatSub(RatMul(c.lead_sum, c.lag_sum_squared),
                      RatMul(c.lag_sum, c.lead_lag_sum_product))
        den == RatSub(RatMul(n, RatSub(c.lag_sum_squared, c.lead_lag_sum_product)),
                      RatSub(RatMul(c.lag_sum, c.lag_sum),
                             RatMul(c.lead_sum, c.lag_sum)))
    IN  <<num, den>>

GL_calculateSeriesMean(numerator, denominator) ==
    IF denominator = Rat(0) \/ numerator = Rat(0)
    THEN Rat(0)
    ELSE RatDiv(numerator, denominator)

GL_calculateLeadLagInnerProduct(data) == InnerProductLagLead(data)

\* The iterator is advanced by one from cbegin(): the sum runs over
\* data[2..n], the squares of every observation except the first.
GL_calculateLagSquared(data) == Reduce(valuesSquared(data), 2, Len(data))

\* exp_mean = exp(mu); the callers pass mu = log(series mean), so exp_mean
\* is the series mean itself (for the non-negative means of the model).
GL_calculateSquaredError(data, exp_mean) ==
    RatSum([i \in 1..(Len(data) - 1) |->
               LET diff == RatSub(data[i + 1], RatMul(data[i], exp_mean))
               IN  RatMul(diff, diff)])

GL_updateLeadLagInnerProduct(lead_lag_inner_product, new_observation, last_observation) ==
    RatAdd(lead_lag_inner_product, RatMul(last_observation, new_observation))

GL_updateLagSquared(lag_squared, last_observation) ==
    RatAdd(lag_squared, RatMul(last_observation, last_observation))

GL_updateSquaredError(squared_error, new_observation, last_observation, mean, n_observations) ==
    LET n_observations_ratio == RatDiv(Rat(n_observations), Rat(n_observations + 1))
        diff == RatSub(new_observation, RatMul(mean, last_observation))
    IN  RatAdd(squared_error, RatMul(n_observations_ratio, RatMul(diff, diff)))

GL_calculateComponents(data) ==
    LET lead_lag_inner_product == GL_calculateLeadLagInnerProduct(data)
        lag_squared == GL_calculateLagSquared(data)
    IN  [lag_squared |-> lag_squared,
         lead_lag_inner_product |-> lead_lag_inner_product,
         squared_error |->
             GL_calculateSquaredError(
                 data, GL_calculateSeriesMean(lead_lag_inner_product, lag_squared)),
         n_obs |-> Len(data)]

GL_updateComponents(components, new_observation, last_observation) ==
    LET lag_squared == GL_updateLagSquared(components.lag_squared, last_observation)
        lead_lag_inner_product ==
            GL_updateLeadLagInnerProduct(components.lead_lag_inner_product,
                                         new_observation, last_observation)
        mean == GL_calculateSeriesMean(lead_lag_inner_product, lag_squared)
    IN  [lag_squared |-> lag_squared,
         lead_lag_inner_product |-> lead_lag_inner_product,
         squared_error |->
             GL_updateSquaredError(components.squared_error, new_observation,
                                   last_observation, mean, components.n_obs),
         n_obs |-> components.n_obs + 1]

\* calculateMu returns log(series mean); the model keeps exp(mu), the
\* series mean, which determines mu.
GL_calculateExpMu(components) ==
    GL_calculateSeriesMean(components.lead_lag_inner_product, components.lag_squared)

\* calculateSigma returns sqrt(squared_error / n_obs), or 0; the model keeps
\* sigma squared, which determines sigma.
GL_calculateSigmaSquared(components) ==
    IF components.squared_error # Rat(0) /\ components.n_obs > 0
    THEN RatDiv(components.squared_error, Rat(components.n_obs))
    ELSE Rat(0)

GL_calculateParameters(components) ==
    [exp_mu |-> GL_calculateExpMu(components),
     sigma_squared |-> GL_calculateSigmaSquared(components)]

(***************************************************************************)
(* KCA filter state (states.cpp).                                          *)
(***************************************************************************)
\* FilterSystemDimensions(3, 3, 3, 1, 3, 1, 1, 0.0): the dimensions every
\* caller of the library passes.
Dims ==
    [state_mean_dimension |-> 3,
     state_covariance_rows |-> 3,
     state_covariance_columns |-> 3,
     observation_matrix_rows |-> 1,
     observation_matrix_columns |-> 3,
     observation_covariance_rows |-> 1,
     observation_covariance_columns |-> 1,
     observation_offset |-> Rat(0)]

\* KcaStates::KcaStates(dimensions): every buffer is allocated with the
\* given size and indeterminate content g; both flags are false
\* (FilterState::FilterState) and the embedded SDE state is all zero
\* (FilterGeneralSde::FilterGeneralSde).
KcaStates(d, g) ==
    [transition_matrix |->
         NewMatrix(d.state_covariance_rows, d.state_covariance_columns, g),
     transition_covariance |->
         NewMatrix(d.state_covariance_rows, d.state_covariance_columns, g),
     predicted_observation_mean |-> NewVector(d.state_mean_dimension, g),
     predicted_state_mean |-> NewVector(d.state_mean_dimension, g),
     predicted_observation_covariance |->
         NewMatrix(d.observation_covariance_rows, d.observation_covariance_columns, g),
     predicted_state_covariance |->
         NewMatrix(d.state_covariance_rows, d.state_covariance_columns, g),
     observation_matrix |->
         NewMatrix(d.observation_matrix_rows, d.observation_matrix_columns, g),
     observation_offset |-> d.observation_offset,
     current_state_mean |-> NewVector(d.state_mean_dimension, g),
     current_state_covariance |->
         NewMatrix(d.state_covariance_rows, d.state_covariance_columns, g),
     initialised |-> FALSE,
     priors_set |-> FALSE,
     filter_sde |-> [exp_mu |-> Rat(1), conditional_variance |-> Rat(0),
                     mu_numerator |-> Rat(0), mu_denominator |-> Rat(0),
                     n_observations |-> 0]]

\* The flag accessors and setters of KcaStates.
\* A variant of isInitialised that reports every instance as initialised.
isInitialised_always(k) == TRUE

isInitialised(k) == k.initialised

arePriorsValid(k) == k.priors_set

\* A variant that also marks the prior as valid.
setInitialized_with_priors(k) == [k EXCEPT !.initialised = TRUE, !.priors_set = TRUE]

setInitialized(k) == [k EXCEPT !.initialised = TRUE]

setPriorsTrue(k) == [k EXCEPT !.priors_set = TRUE]

\* A variant of setPriorsFalse that leaves the flag as it is.
setPriorsFalse_keeping(k) == k

setPriorsFalse(k) == [k EXCEPT !.priors_set = FALSE]

\* FilterGeneralSde::initializeLikelihoodState.  mu is kept as exp(mu), the
\* series mean; the conditional variance (2 sigma mu)/(e^{2mu} - e^{mu}) is
\* transcendental in the data and enters as the value cv.
initializeLikelihoodState(data_series, cv) ==
    LET num == GL_calculateLeadLagInnerProduct(data_series)
        den == GL_calculateLagSquared(data_series)
    IN  [exp_mu |-> GL_calculateSeriesMean(num, den),
         conditional_variance |-> cv,
         mu_numerator |-> num,
         mu_denominator |-> den,
         n_observations |-> Len(data_series)]

\* KcaStates::setInitialState.  The flag priors_set is not written.
setInitialState(k, data_series, h, q, cv) ==
    LET sde == initializeLikelihoodState(data_series, cv)
        z == Rat(0)
        one == Rat(1)
        transition_matrix_as_vectors ==
            << <<sde.exp_mu, h, RatMul(<<1, 2>>, RatMul(h, h))>>,
               <<z, one, h>>,
               <<z, z, one>> >>
        transition_covariance_as_vectors ==
            << <<sde.conditional_variance, z, z>>, <<z, q, z>>, <<z, z, q>> >>
        current_state_mean_as_vector ==
            <<RatMul(data_series[Len(data_series)], sde.exp_mu), z, z>>
        current_state_covariance_as_vectors ==
            << <<z, z, z>>, <<z, z, z>>, <<z, z, z>> >>
        observation_matrix_as_vectors == << <<one, z, z>> >>
    IN  setInitialized(
            [k EXCEPT
                !.filter_sde = sde,
                !.current_state_mean = SetVector(@, current_state_mean_as_vector),
                !.current_state_covariance =
                    SetMatrix(@, current_state_covariance_as_vectors),
                !.transition_matrix = SetMatrix(@, transition_matrix_as_vectors),
                !.transition_covariance =
                    SetMatrix(@, transition_covariance_as_vectors),
                !.observation_matrix = SetMatrix(@, observation_matrix_as_vectors),
                !.observation_offset = z])

\* PredictedState::calculateMean / calculateCovariance.
PredictedState_calculateMean(transition_matrix, current_state_mean) ==
    prodVec(transition_matrix, current_state_mean)

PredictedState_calculateCovariance(transition_matrix, current_state_covariance, transition_covariance) ==
    MatAdd(prod(transition_matrix,
                prod(current_state_covariance, trans(transition_matrix))),
           transition_covariance)

\* KcaStates::updatePredictedState.  The outcome is a record: the failure
\* raised ("none" when the call returns) and the state left behind.
\* A variant of updatePredictedState that also moves the posterior mean to
\* the predicted one.
updatePredictedState_advancing(k) ==
    IF ~isInitialised(k)
    THEN [raised |-> "filter_uninitialised",
          what |-> <<"The KCA kalman filter has not been initialised.">>,
          state |-> k]
    ELSE LET predicted_state_mean ==
                 PredictedState_calculateMean(k.transition_matrix, k.current_state_mean)
         IN  [raised |-> "none",
              what |-> <<>>,
              state |->
                  setPriorsTrue(
                      [k EXCEPT
                          !.predicted_state_mean = SetVector(@, predicted_state_mean),
                          !.current_state_mean = SetVector(@, predicted_state_mean),
                          !.predicted_state_covariance =
                              SetMatrix(@, PredictedState_calculateCovariance(
                                               k.transition_matrix,
                                               k.current_state_covariance,
                                               k.transition_covariance))])]

updatePredictedState(k) ==
    IF ~isInitialised(k)
    THEN [raised |-> "filter_uninitialised",
          what |-> <<"The KCA kalman filter has not been initialised.">>,
          state |-> k]
    ELSE LET predicted_state_mean ==
                 PredictedState_calculateMean(k.transition_matrix, k.current_state_mean)
             predicted_state_covariance ==
                 PredictedState_calculateCovariance(
                     k.transition_matrix, k.current_state_covariance,
                     k.transition_covariance)
         IN  [raised |-> "none",
              what |-> <<>>,
              state |->
                  setPriorsTrue(
                      [k EXCEPT
                          !.predicted_state_mean = SetVector(@, predicted_state_mean),
                          !.predicted_state_covariance =
                              SetMatrix(@, predicted_state_covariance)])]

\* PredictedObservation::calculateMean / calculateCovariance.
PredictedObservation_calculateMean(observation_matrix, observation_offset, predicted_state_mean) ==
    add_scalar_to_vector(prodVec(observation_matrix, predicted_state_mean),
                         observation_offset)

PredictedObservation_calculateCovariance(observation_matrix, predicted_state_covariance, innovation_sigma) ==
    add_scalar_to_matrix(
        prod(observation_matrix,
             prod(predicted_state_covariance, trans(observation_matrix))),
        RatMul(innovation_sigma, innovation_sigma))

\* BoostMartixInverter::invertMatrix on the 1x1 predicted observation
\* covariance: the LU inversion reports a singular matrix as a failure.
IsSingular(A) == A[1][1] = Rat(0)

invertMatrix(A) == << <<RatDiv(Rat(1), A[1][1])>> >>

\* PredictedObservation::calculateKalmanGain.
calculateKalmanGain(observation_matrix, predicted_state_covariance, predicted_observation_covariance) ==
    prod(predicted_state_covariance,
         prod(trans(observation_matrix),
              invertMatrix(predicted_observation_covariance)))

\* CurrentState::calculateMean / calculateCovariance.
CurrentState_calculateMean(predicted_state_mean, kalman_gain, innovation) ==
    VecAdd(predicted_state_mean, VecScale(kalman_gain, innovation))

CurrentState_calculateCovariance(predicted_state_covariance, observation_matrix, kalman_gain) ==
    MatSub(predicted_state_covariance,
           prod(kalman_gain, prod(observation_matrix, predicted_state_covariance)))

\* A variant of updateCurrentState that stores the predicted observation
\* before the gain is computed and fails on every inversion.
updateCurrentState_storing_early(k, observation, innovation_sigma) ==
    IF ~isInitialised(k)
    THEN [raised |-> "filter_uninitialised",
          what |-> <<"The KCA kalman filter has not been initialised.">>,
          state |-> k]
    ELSE IF ~arePriorsValid(k)
    THEN [raised |-> "filter_invalid_operation",
          what |-> <<"The KCA kalman filter priors must be set to valid state before calling updateCurrentState.">>,
          state |-> k]
    ELSE [raised |-> "runtime_error",
          what |-> <<"GSL matrix inversion failed.">>,
          state |->
              [k EXCEPT
                  !.predicted_observation_mean =
                      SetVector(@, PredictedObservation_calculateMean(
                                       k.observation_matrix, k.observation_offset,
                                       k.predicted_state_mean)),
                  !.predicted_observation_covariance =
                      SetMatrix(@, PredictedObservation_calculateCovariance(
                                       k.observation_matrix,
                                       k.predicted_state_covariance,
                                       innovation_sigma))]]

\* KcaStates::updateCurrentState.
updateCurrentState(k, observation, innovation_sigma) ==
    IF ~isInitialised(k)
    THEN [raised |-> "filter_uninitialised",
          what |-> <<"The KCA kalman filter has not been initialised.">>,
          state |-> k]
    ELSE IF ~arePriorsValid(k)
    THEN [raised |-> "filter_invalid_operation",
          what |-> <<"The KCA kalman filter priors must be set to valid state before calling updateCurrentState.">>,
          state |-> k]
    ELSE LET predicted_observation_mean ==
                 PredictedObservation_calculateMean(
                     k.observation_matrix, k.observation_offset,
                     k.predicted_state_mean)
             predicted_observation_covariance ==
                 PredictedObservation_calculateCovariance(
                     k.observation_matrix, k.predicted_state_covariance,
                     innovation_sigma)
         IN  IF IsSingular(predicted_observation_covariance)
             THEN [raised |-> "runtime_error",
                   what |-> <<"GSL matrix inversion failed.">>,
                   state |-> k]
             ELSE LET kalman_gain ==
                          calculateKalmanGain(
                              k.observation_matrix, k.predicted_state_covariance,
                              predicted_observation_covariance)
                      innovation ==
                          RatSub(observation, predicted_observation_mean[1])
                      kalman_gain_vector ==
                          [i \in 1..Rows(kalman_gain) |-> kalman_gain[i][1]]
                      current_state_mean ==
                          CurrentState_calculateMean(
                              k.predicted_state_mean, kalman_gain_vector, innovation)
                      current_state_covariance ==
                          CurrentState_calculateCovariance(
                              k.predicted_state_covariance, k.observation_matrix,
                              kalman_gain)
                  IN  [raised |-> "none",
                       what |-> <<>>,
                       state |->
                           setPriorsFalse(
                               [k EXCEPT
                                   !.predicted_observation_mean =
                                       SetVector(@, predicted_observation_mean),
                                   !.predicted_observation_covariance =
                                       SetMatrix(@, predicted_observation_covariance),
                                   !.current_state_mean =
                                       SetVector(@, current_state_mean),
                                   !.current_state_covariance =
                                       SetMatrix(@, current_state_covariance)])]

(***************************************************************************)
(* KCA facade (filter.cpp).  A failure is a record of the exception type   *)
(* raised and the parts of its message.                                    *)
(***************************************************************************)
\* A variant of updatePriors that swallows the failure it catches.
KineticComponents_updatePriors_swallowing(k) ==
    LET r == updatePredictedState(k)
    IN  IF r.raised = "filter_uninitialised"
        THEN [raised |-> "none", what |-> <<>>, state |-> r.state]
        ELSE r

\* KineticComponents::updatePriors: catches filter_uninitialised only.
KineticComponents_updatePriors(k) ==
    LET r == updatePredictedState(k)
    IN  IF r.raised = "filter_uninitialised"
        THEN [raised |-> "filter_uninitialised",
              what |-> <<"Unhandled error when updating the prior kinetic components state: ">>
                       \o r.what,
              state |-> r.state]
        ELSE r

\* A variant of updatePosteriors that marks the priors valid when it
\* reports the failure it catches.
KineticComponents_updatePosteriors_repairing(k, observation, innovation_sigma) ==
    LET r == updateCurrentState(k, observation, innovation_sigma)
    IN  IF r.raised = "filter_invalid_operation"
        THEN [raised |-> "filter_invalid_operation",
              what |-> <<>>,
              state |-> setPriorsTrue(r.state)]
        ELSE r

\* A variant of updatePosteriors that reports the failure it catches as
\* filter_uninitialised.
KineticComponents_updatePosteriors_rekinding(k, observation, innovation_sigma) ==
    LET r == updateCurrentState(k, observation, innovation_sigma)
    IN  IF r.raised = "filter_invalid_operation"
        THEN [raised |-> "filter_uninitialised",
              what |-> <<>>,
              state |-> r.state]
        ELSE r

\* KineticComponents::updatePosteriors: catches filter_invalid_operation
\* only, builds the message and throws filter_invalid_operation("").
KineticComponents_updatePosteriors(k, observation, innovation_sigma) ==
    LET r == updateCurrentState(k, observation, innovation_sigma)
    IN  IF r.raised = "filter_invalid_operation"
        THEN [raised |-> "filter_invalid_operation",
              what |-> <<>>,
              state |-> r.state]
        ELSE r

\* KineticComponents::setFilterState: the state of the filter is replaced
\* by a copy of the one given.
KineticComponents_setFilterState(k, state) == state

\* KineticComponents::initialiseFilter.
KineticComponents_initialiseFilter(k, data_series, h, q, cv) ==
    [raised |-> "none", what |-> <<>>,
     state |-> setInitialState(k, data_series, h, q, cv)]

\* The failure kinds of the specification carried by the exception types.
NotInitialised == "filter_uninitialised"

InvalidOperation == "filter_invalid_operation"

StateParse == "json_parse_error"

(***************************************************************************)
(* State codec (adapters.cpp).  A blob is a text: either not JSON at all   *)
(* (syntax_ok false) or a JSON object, a function from its keys to typed   *)
(* values.                                                                 *)
(***************************************************************************)
StateKeys ==
    {"transition_matrix", "transition_covariance", "current_state_mean",
     "current_state_covariance", "observation_matrix", "observation_offset"}

JsonMatrix(A) == [type |-> "array2", v |-> A]

JsonVector(u) == [type |-> "array1", v |-> u]

JsonNumber(x) == [type |-> "number", v |-> x]

JsonString == [type |-> "string", v |-> "x"]

\* KcaStatesJsonAdapter::serialize.
KcaStatesJsonAdapter_serialize(k) ==
    [syntax_ok |-> TRUE,
     obj |->
        [key \in StateKeys |->
            CASE key = "transition_matrix" -> JsonMatrix(k.transition_matrix)
              [] key = "transition_covariance" -> JsonMatrix(k.transition_covariance)
              [] key = "current_state_covariance" ->
                     JsonMatrix(k.current_state_covariance)
              [] key = "current_state_mean" -> JsonVector(k.current_state_mean)
              [] key = "observation_matrix" -> JsonMatrix(k.observation_matrix)
              [] key = "observation_offset" -> JsonNumber(k.observation_offset)]]

\* json_obj.at(key).get_to(target) of the expected type: which
\* nlohmann::json::exception it raises, if any.
JsonGetFails(obj, key, type) ==
    \/ key \notin DOMAIN obj
    \/ obj[key].type # type

\* KcaStatesJsonAdapter::deserialize.  nlohmann::json::parse runs before the
\* try block; the accesses run inside it.
KcaStatesJsonAdapter_deserialize(state, dimensions, g) ==
    IF ~state.syntax_ok
    THEN [raised |-> "nlohmann::json::parse_error", what |-> <<"parse error">>,
          state |-> KcaStates(dimensions, g)]
    ELSE LET obj == state.obj
             Expected == [key \in StateKeys |->
                             IF key = "current_state_mean" THEN "array1"
                             ELSE IF key = "observation_offset" THEN "number"
                             ELSE "array2"]
         IN  IF \E key \in StateKeys : JsonGetFails(obj, key, Expected[key])
             THEN [raised |-> "json_parse_error", what |-> <<"json exception">>,
                   state |-> KcaStates(dimensions, g)]
             ELSE [raised |-> "none", what |-> <<>>,
                   state |->
                      setInitialized(
                          [KcaStates(dimensions, g) EXCEPT
                              !.transition_matrix =
                                  SetMatrix(@, obj["transition_matrix"].v),
                              !.transition_covariance =
                                  SetMatrix(@, obj["transition_covariance"].v),
                              !.current_state_mean =
                                  SetVector(@, obj["current_state_mean"].v),
                              !.current_state_covariance =
                                  SetMatrix(@, obj["current_state_covariance"].v),
                              !.observation_matrix =
                                  SetMatrix(@, obj["observation_matrix"].v),
                              !.observation_offset = obj["observation_offset"].v])]

DimensionKeys ==
    {"state_mean_dimension", "state_covariance_rows", "state_covariance_columns",
     "observation_matrix_rows", "observation_matrix_columns",
     "observation_covariance_rows", "observation_covariance_columns",
     "observation_offset"}

\* FilterSystemDimensionsJsonAdapter::serialize.
FilterSystemDimensionsJsonAdapter_serialize(dimensions) ==
    [syntax_ok |-> TRUE,
     obj |-> [key \in DimensionKeys |->
                 IF key = "observation_offset"
                 THEN JsonNumber(dimensions.observation_offset)
                 ELSE JsonNumber(Rat(dimensions[key]))]]

\* FilterSystemDimensionsJsonAdapter::deserialize.
FilterSystemDimensionsJsonAdapter_deserialize(state) ==
    IF ~state.syntax_ok
    THEN [raised |-> "nlohmann::json::parse_error", what |-> <<"parse error">>,
          dimensions |-> Dims]
    ELSE IF \E key \in DimensionKeys : JsonGetFails(state.obj, key, "number")
    THEN [raised |-> "json_parse_error", what |-> <<"json exception">>,
          dimensions |-> Dims]
    ELSE [raised |-> "none", what |-> <<>>,
          dimensions |->
             [key \in DimensionKeys |->
                 IF key = "observation_offset"
                 THEN state.obj[key].v
                 ELSE state.obj[key].v[1] \div state.obj[key].v[2]]]

(***************************************************************************)
(* KCA entry points (entrypoint_kca_filter.cpp).  The outcome is a record: *)
(* the failure raised ("none" when the call returns) and the blob          *)
(* returned.  g and g2 are the indeterminate contents of the two KcaStates *)
(* the call constructs.                                                    *)
(***************************************************************************)
\* getInitializedKcaState.
getInitializedKcaState(data_series, h, q, system_dimensions, cv, g) ==
    LET dr == FilterSystemDimensionsJsonAdapter_deserialize(system_dimensions)
    IN  IF dr.raised # "none"
        THEN [raised |-> dr.raised, what |-> dr.what, blob |-> <<>>]
        ELSE LET kinetic_components == KcaStates(dr.dimensions, g)
                 ir == KineticComponents_initialiseFilter(
                           kinetic_components, data_series, h, q, cv)
             IN  [raised |-> "none", what |-> <<>>,
                  blob |-> KcaStatesJsonAdapter_serialize(ir.state)]

\* A variant of getUpdatedKcaState that does not call updatePriors.
getUpdatedKcaState_unpredicted(state, system_dimensions, observation, innovation_sigma, g, g2) ==
    LET dr == FilterSystemDimensionsJsonAdapter_deserialize(system_dimensions)
        sr == KcaStatesJsonAdapter_deserialize(state, dr.dimensions, g)
        ur == KineticComponents_updatePosteriors(sr.state, observation,
                                                 innovation_sigma)
    IN  IF dr.raised # "none"
        THEN [raised |-> dr.raised, what |-> dr.what, blob |-> <<>>]
        ELSE IF sr.raised # "none"
        THEN [raised |-> sr.raised, what |-> sr.what, blob |-> <<>>]
        ELSE IF ur.raised # "none"
        THEN [raised |-> ur.raised, what |-> ur.what, blob |-> <<>>]
        ELSE [raised |-> "none", what |-> <<>>,
              blob |-> KcaStatesJsonAdapter_serialize(ur.state)]

\* getUpdatedKcaState: decode the dimensions and the state, install the
\* state in a new KineticComponents, updatePriors, updatePosteriors, and
\* encode the state of the filter.
getUpdatedKcaState(state, system_dimensions, observation, innovation_sigma, g, g2) ==
    LET dr == FilterSystemDimensionsJsonAdapter_deserialize(system_dimensions)
    IN  IF dr.raised # "none"
        THEN [raised |-> dr.raised, what |-> dr.what, blob |-> <<>>]
        ELSE
        LET sr == KcaStatesJsonAdapter_deserialize(state, dr.dimensions, g)
        IN  IF sr.raised # "none"
            THEN [raised |-> sr.raised, what |-> sr.what, blob |-> <<>>]
            ELSE
            LET kinetic_components ==
                    KineticComponents_setFilterState(KcaStates(dr.dimensions, g2),
                                                     sr.state)
                pr == KineticComponents_updatePriors(kinetic_components)
            IN  IF pr.raised # "none"
                THEN [raised |-> pr.raised, what |-> pr.what, blob |-> <<>>]
                ELSE
                LET ur == KineticComponents_updatePosteriors(
                              pr.state, observation, innovation_sigma)
                IN  IF ur.raised # "none"
                    THEN [raised |-> ur.raised, what |-> ur.what, blob |-> <<>>]
                    ELSE [raised |-> "none", what |-> <<>>,
                          blob |-> KcaStatesJsonAdapter_serialize(ur.state)]

(***************************************************************************)
(* The program state explored for the KCA filter and its codec: one        *)
(* KineticComponents instance, and what its caller holds (a KcaStates      *)
(* value, a state blob and a dimensions blob).                             *)
(***************************************************************************)
VARIABLES
    filter_state,       \* KineticComponents::filter_state
    held,               \* a KcaStates value held by the caller
    blob,               \* the text of a state blob held by the caller
    dimensions_blob,    \* the text of a dimensions blob held by the caller
    result,             \* the outcome of the last call: operation, failure, message
    history,            \* bookkeeping that is not program state (see below)
    likelihood,         \* a series and the likelihood components computed from it
    context,            \* the opaque callback context of the last wrapper call
    solver              \* the root find or integration in progress or last ended

\* history.phase: where the instance stands in the order the specification
\* prescribes, "new" (constructed), "ready" (initialise or update was the
\* last accepted call) or "predicted" (predict was); history.depth: the
\* number of accepted state-changing calls behind the values of the
\* instance.  heldPhase/heldDepth are the same for the value the caller
\* holds, blobDepth the same for the values written in the blob.
kcaVars == <<filter_state, held, blob, dimensions_blob, result, history>>

\* Inputs of the KCA calls.
SeriesInputs == {<<Rat(1), Rat(2)>>}

StepInputs == {Rat(1)}

CovarianceScaleInputs == {Rat(1)}

ConditionalVarianceValues == {Rat(0), Rat(1)}

ObservationInputs == {Rat(1)}

InnovationSigmaInputs == {Rat(0), Rat(1)}

MkBlob(T, Q, m, P, H, o) ==
    [syntax_ok |-> TRUE,
     obj |->
        [key \in StateKeys |->
            CASE key = "transition_matrix" -> JsonMatrix(T)
              [] key = "transition_covariance" -> JsonMatrix(Q)
              [] key = "current_state_covariance" -> JsonMatrix(P)
              [] key = "current_state_mean" -> JsonVector(m)
              [] key = "observation_matrix" -> JsonMatrix(H)
              [] key = "observation_offset" -> JsonNumber(o)]]

\* Well-formed state blobs a caller may pass: the shape of the blob of the
\* library's tests, and one whose six fields all differ from it.
BlobA ==
    MkBlob(<< <<Rat(1), Rat(1), <<1, 2>> >>, <<Rat(0), Rat(1), Rat(1)>>,
              <<Rat(0), Rat(0), Rat(1)>> >>,
           << <<Rat(1), Rat(0), Rat(0)>>, <<Rat(0), Rat(1), Rat(0)>>,
              <<Rat(0), Rat(0), Rat(1)>> >>,
           <<Rat(2), Rat(0), Rat(0)>>,
           << <<Rat(0), Rat(0), Rat(0)>>, <<Rat(0), Rat(0), Rat(0)>>,
              <<Rat(0), Rat(0), Rat(0)>> >>,
           << <<Rat(1), Rat(0), Rat(0)>> >>,
           Rat(0))

BlobB ==
    MkBlob(<< <<Rat(1), Rat(2), Rat(0)>>, <<Rat(0), Rat(1), Rat(2)>>,
              <<Rat(0), Rat(0), Rat(1)>> >>,
           << <<Rat(2), Rat(0), Rat(0)>>, <<Rat(0), Rat(1), Rat(0)>>,
              <<Rat(0), Rat(0), Rat(3)>> >>,
           <<Rat(1), Rat(2), Rat(3)>>,
           << <<Rat(1), Rat(0), Rat(1)>>, <<Rat(0), Rat(2), Rat(0)>>,
              <<Rat(1), Rat(0), Rat(1)>> >>,
           << <<Rat(1), Rat(1), Rat(0)>> >>,
           Rat(1))

WellFormedBlobs == {BlobA, BlobB}

\* The ways a text handed to the codec can be malformed: not JSON at all, a
\* key missing, a value of the wrong type.
Defects(keys) ==
    {<<"none", "">>, <<"syntax", "">>}
        \cup {<<"missing", key>> : key \in keys}
        \cup {<<"type", key>> : key \in keys}

Corrupt(b, defect) ==
    CASE defect[1] = "none" -> b
      [] defect[1] = "syntax" -> [b EXCEPT !.syntax_ok = FALSE]
      [] defect[1] = "missing" ->
             [b EXCEPT !.obj = [key \in (DOMAIN b.obj) \ {defect[2]} |-> b.obj[key]]]
      [] defect[1] = "type" -> [b EXCEPT !.obj[defect[2]] = JsonString]

\* No series has been taken up and no wrapper has been called.
LikelihoodIdle ==
    [series |-> <<>>, ou |-> <<>>, ou_from |-> 0, ou_seen |-> 0,
     gl |-> <<>>, gl_from |-> 0, gl_seen |-> 0, raised |-> "none"]

ContextIdle ==
    [fn |-> "none", outcome |-> "none", created |-> 0, released |-> 0,
     raised |-> "none"]

KcaInit ==
    /\ \E g \in Garbage :
          /\ filter_state = KcaStates(Dims, g)
          /\ held = KcaStates(Dims, g)
    /\ blob \in WellFormedBlobs
    /\ dimensions_blob = FilterSystemDimensionsJsonAdapter_serialize(Dims)
    /\ result = [op |-> "construct", raised |-> "none", what |-> <<>>]
    /\ history = [phase |-> "new", depth |-> 0, heldPhase |-> "new", heldDepth |-> 0,
                  blobDepth |-> 0]

\* No root find or integration has been called.
SolverIdle ==
    [pc |-> "idle", call |-> "none", entry |-> "none", entry_site |-> "",
     entry_handler |-> "none",
     level |-> [fn |-> "none", primitive |-> "none", handler |-> "none",
                callback |-> "none", params |-> "none", catch_delete |-> "none",
                site |-> ""],
     optimizer |-> "none",
     eq |-> [kind |-> "none", zero |-> 0, slope |-> <<0, 1>>, poles |-> {}, e |-> "none"],
     lower |-> 0, upper |-> 0,
     x_lo |-> 0, x_hi |-> 0, root |-> 0, iter |-> 0, status |-> "none",
     evaluations |-> 0, raised |-> "none", value |-> "none",
     diagnostics |-> <<>>, released |-> 0,
     workspace |-> "none", gsl_error_handler |-> "old_handler",
     read_as |-> "none", deleted_as |-> "none"]

Init ==
    /\ KcaInit
    /\ likelihood = LikelihoodIdle
    /\ context = ContextIdle
    /\ solver = SolverIdle

\* A call ends with r; history.phase follows the order initialise ->
\* (predict -> update)* through the accepted calls.
Accept(op, r) ==
    /\ filter_state' = r.state
    /\ result' = [op |-> op, raised |-> r.raised, what |-> r.what]
    /\ history' = IF r.raised = "none"
                  THEN [history EXCEPT !.phase = IF op = "predict" THEN "predicted" ELSE "ready",
                                       !.depth = @ + 1]
                  ELSE history
    /\ UNCHANGED <<held, blob, dimensions_blob, likelihood, context, solver>>

\* kinetic_components.initialiseFilter(data_series, h, q)
InitialiseFilter ==
    /\ history.depth < MaxOps
    /\ \E data_series \in SeriesInputs, h \in StepInputs,
          q \in CovarianceScaleInputs, cv \in ConditionalVarianceValues :
          Accept("initialise",
                 KineticComponents_initialiseFilter(filter_state, data_series, h, q, cv))

\* kinetic_components.updatePriors()
UpdatePriors ==
    /\ history.depth < MaxOps
    /\ Accept("predict", KineticComponents_updatePriors(filter_state))

\* kinetic_components.updatePosteriors(observation, innovation_sigma)
UpdatePosteriors ==
    /\ history.depth < MaxOps
    /\ \E observation \in ObservationInputs, innovation_sigma \in InnovationSigmaInputs :
          Accept("update",
                 KineticComponents_updatePosteriors(filter_state, observation,
                                                    innovation_sigma))

\* kinetic_components.getFilterState()
GetFilterState ==
    /\ held' = filter_state
    /\ history' = [history EXCEPT !.heldPhase = history.phase,
                                  !.heldDepth = history.depth]
    /\ result' = [op |-> "get_filter_state", raised |-> "none", what |-> <<>>]
    /\ UNCHANGED <<filter_state, blob, dimensions_blob, likelihood, context, solver>>

\* kinetic_components.setFilterState(held)
SetFilterState ==
    /\ filter_state' = held
    /\ history' = [history EXCEPT !.phase = history.heldPhase,
                                  !.depth = history.heldDepth]
    /\ result' = [op |-> "set_filter_state", raised |-> "none", what |-> <<>>]
    /\ UNCHANGED <<held, blob, dimensions_blob, likelihood, context, solver>>

\* KcaStates kca_states(dimensions)
ConstructState ==
    /\ \E g \in Garbage : held' = KcaStates(Dims, g)
    /\ history' = [history EXCEPT !.heldPhase = "new", !.heldDepth = 0]
    /\ result' = [op |-> "construct", raised |-> "none", what |-> <<>>]
    /\ UNCHANGED <<filter_state, blob, dimensions_blob, likelihood, context, solver>>

\* adapter.serialize(held)
Serialize ==
    /\ blob' = KcaStatesJsonAdapter_serialize(held)
    /\ history' = [history EXCEPT !.blobDepth = history.heldDepth]
    /\ result' = [op |-> "serialize", raised |-> "none", what |-> <<>>]
    /\ UNCHANGED <<filter_state, held, dimensions_blob, likelihood, context, solver>>

\* adapter.deserialize(blob, dimensions)
Deserialize ==
    \E g \in Garbage :
        LET r == KcaStatesJsonAdapter_deserialize(blob, Dims, g)
        IN  /\ held' = IF r.raised = "none" THEN r.state ELSE held
            /\ history' = IF r.raised = "none"
                          THEN [history EXCEPT !.heldPhase = "ready",
                                               !.heldDepth = history.blobDepth]
                          ELSE history
            /\ result' = [op |-> "deserialize", raised |-> r.raised, what |-> r.what]
            /\ UNCHANGED <<filter_state, blob, dimensions_blob, likelihood, context, solver>>

\* dimensions_adapter.deserialize(dimensions_blob)
DeserializeDimensions ==
    LET r == FilterSystemDimensionsJsonAdapter_deserialize(dimensions_blob)
    IN  /\ result' = [op |-> "deserialize_dimensions", raised |-> r.raised,
                      what |-> r.what, dimensions |-> r.dimensions]
        /\ UNCHANGED <<filter_state, held, blob, dimensions_blob, history, likelihood, context, solver>>

\* The caller takes a state blob from elsewhere, well-formed or not.
ProvideBlob ==
    /\ \E b \in WellFormedBlobs, defect \in Defects(StateKeys) :
          blob' = Corrupt(b, defect)
    /\ history' = [history EXCEPT !.blobDepth = 0]
    /\ result' = [op |-> "provide_blob", raised |-> "none", what |-> <<>>]
    /\ UNCHANGED <<filter_state, held, dimensions_blob, likelihood, context, solver>>

\* The caller takes a dimensions blob from elsewhere, well-formed or not.
ProvideDimensionsBlob ==
    /\ \E defect \in Defects(DimensionKeys) :
          dimensions_blob' =
              Corrupt(FilterSystemDimensionsJsonAdapter_serialize(Dims), defect)
    /\ result' = [op |-> "provide_dimensions_blob", raised |-> "none", what |-> <<>>]
    /\ UNCHANGED <<filter_state, held, blob, history, likelihood, context, solver>>

\* The calls on the filter: the facade, the state it exchanges with its
\* caller, and states decoded from blobs.
Next ==
    \/ InitialiseFilter
    \/ UpdatePriors
    \/ UpdatePosteriors
    \/ GetFilterState
    \/ SetFilterState
    \/ ConstructState
    \/ Deserialize

vars == <<filter_state, held, blob, dimensions_blob, result, history, likelihood, context, solver>>

Spec == Init /\ [][Next]_vars

\* The calls on the codec.
SpecCodec ==
    Init /\ [][\/ ProvideBlob
                \/ ProvideDimensionsBlob
                \/ ConstructState
                \/ Serialize
                \/ Deserialize
                \/ DeserializeDimensions]_vars

\* getInitializedKcaState(data_series, h, q, dimensions_blob): the caller
\* keeps the blob returned.
GetInitializedKcaState ==
    \E data_series \in SeriesInputs, h \in StepInputs, q \in CovarianceScaleInputs,
       cv \in ConditionalVarianceValues, g \in Garbage :
        \E r \in {getInitializedKcaState(data_series, h, q, dimensions_blob, cv, g)} :
            /\ blob' = IF r.raised = "none" THEN r.blob ELSE blob
            /\ history' = IF r.raised = "none"
                          THEN [history EXCEPT !.blobDepth = 1]
                          ELSE history
            /\ result' = [op |-> "get_initialised_kca_state", raised |-> r.raised,
                          what |-> r.what]
            /\ UNCHANGED <<filter_state, held, dimensions_blob, likelihood, context, solver>>

\* getUpdatedKcaState(blob, dimensions_blob, observation, innovation_sigma):
\* the caller keeps the blob returned and may pass it to the next call.
GetUpdatedKcaState ==
    /\ history.blobDepth + 2 <= MaxOps
    /\ \E observation \in ObservationInputs, innovation_sigma \in InnovationSigmaInputs,
          g \in Garbage, g2 \in Garbage :
          \E r \in {getUpdatedKcaState(blob, dimensions_blob, observation,
                                       innovation_sigma, g, g2)} :
              /\ blob' = IF r.raised = "none" THEN r.blob ELSE blob
              /\ history' = IF r.raised = "none"
                            THEN [history EXCEPT !.blobDepth = @ + 2]
                            ELSE history
              /\ result' = [op |-> "get_updated_kca_state", raised |-> r.raised,
                            what |-> r.what, state |-> blob,
                            system_dimensions |-> dimensions_blob,
                            observation |-> observation,
                            innovation_sigma |-> innovation_sigma]
              /\ UNCHANGED <<filter_state, held, dimensions_blob, likelihood, context, solver>>

\* The calls on the KCA entry points.
SpecEntry ==
    Init /\ [][\/ ProvideBlob
                \/ ProvideDimensionsBlob
                \/ GetInitializedKcaState
                \/ GetUpdatedKcaState]_vars

(***************************************************************************)
(* The likelihood estimators: a series is taken up, the batch estimator    *)
(* runs on its first k samples and the incremental estimator takes the     *)
(* remaining samples one by one, each with its predecessor.                *)
(* likelihood.ou_from / gl_from is the k of the batch run, ou_seen /       *)
(* gl_seen the number of samples taken so far (0: no bundle yet).          *)
(***************************************************************************)
AllSeries == UNION {[1..n -> {Rat(v) : v \in 1..MaxSample}] : n \in 2..MaxSeriesLen}

Prefix(series, k) == SubSeq(series, 1, k)

LikelihoodInit ==
    /\ KcaInit
    /\ \E series \in AllSeries :
          likelihood = [LikelihoodIdle EXCEPT !.series = series]
    /\ context = ContextIdle
    /\ solver = SolverIdle

\* ou_likelihood.calculateComponents(first k samples)
OuCalculateComponents ==
    /\ likelihood.ou_seen = 0
    /\ \E k \in 1..Len(likelihood.series) :
          likelihood' =
              [likelihood EXCEPT
                  !.ou = OU_calculateComponents(Prefix(likelihood.series, k)),
                  !.ou_from = k,
                  !.ou_seen = k,
                  !.raised = "none"]
    /\ UNCHANGED <<kcaVars, context, solver>>

\* ou_likelihood.updateComponents(components, x_new, x_prev)
OuUpdateComponents ==
    /\ likelihood.ou_seen >= 1
    /\ likelihood.ou_seen < Len(likelihood.series)
    /\ likelihood' =
          [likelihood EXCEPT
              !.ou = OU_updateComponents(likelihood.ou,
                                         likelihood.series[likelihood.ou_seen + 1],
                                         likelihood.series[likelihood.ou_seen]),
              !.ou_seen = @ + 1,
              !.raised = "none"]
    /\ UNCHANGED <<kcaVars, context, solver>>

\* gl_likelihood.calculateComponents(first k samples); calculateSquaredError
\* throws InvalidNumberObservationsError unless there are two samples.
GlCalculateComponents ==
    /\ likelihood.gl_seen = 0
    /\ \E k \in 1..Len(likelihood.series) :
          likelihood' =
              IF k > 1
              THEN [likelihood EXCEPT
                       !.gl = GL_calculateComponents(Prefix(likelihood.series, k)),
                       !.gl_from = k,
                       !.gl_seen = k,
                       !.raised = "none"]
              ELSE [likelihood EXCEPT !.raised = "InvalidNumberObservationsError"]
    /\ UNCHANGED <<kcaVars, context, solver>>

\* gl_likelihood.updateComponents(components, x_new, x_prev)
GlUpdateComponents ==
    /\ likelihood.gl_seen >= 1
    /\ likelihood.gl_seen < Len(likelihood.series)
    /\ likelihood' =
          [likelihood EXCEPT
              !.gl = GL_updateComponents(likelihood.gl,
                                         likelihood.series[likelihood.gl_seen + 1],
                                         likelihood.series[likelihood.gl_seen]),
              !.gl_seen = @ + 1,
              !.raised = "none"]
    /\ UNCHANGED <<kcaVars, context, solver>>

SpecLikelihood ==
    LikelihoodInit /\ [][\/ OuCalculateComponents
                          \/ OuUpdateComponents
                          \/ GlCalculateComponents
                          \/ GlUpdateComponents]_vars

(***************************************************************************)
(* Opaque callback contexts.  A wrapper allocates a parameter bundle with  *)
(* new, hands it as void* to a numeric primitive, and deletes it.  Each    *)
(* wrapper is described by the primitive it calls and by the exception     *)
(* type of the catch clause around that call ("none": the call is not in   *)
(* a try block).                                                           *)
(***************************************************************************)
\* The wrappers of OptimalMeanReversion: F, G and the three forms of
\* instantaneousDifferential.
OptimalMeanReversionFunctions ==
    {[fn |-> "OptimalMeanReversion::F",
      primitive |-> "semiInfiniteIntegrationUpper", handler |-> "none"],
     [fn |-> "OptimalMeanReversion::G",
      primitive |-> "semiInfiniteIntegrationUpper", handler |-> "std::exception"],
     [fn |-> "OptimalMeanReversion::instantaneousDifferential(stop_loss)",
      primitive |-> "adaptiveCentralDifferentiation", handler |-> "std::exception"],
     [fn |-> "OptimalMeanReversion::instantaneousDifferential(b_star)",
      primitive |-> "adaptiveCentralDifferentiation", handler |-> "std::exception"],
     [fn |-> "OptimalMeanReversion::instantaneousDifferential",
      primitive |-> "adaptiveCentralDifferentiation", handler |-> "std::exception"]}

\* The wrappers of ExponentialMeanReversion: F, G and the two forms of
\* instantaneousDifferential that are applicable.
ExponentialMeanReversionFunctions ==
    {[fn |-> "ExponentialMeanReversion::F",
      primitive |-> "semiInfiniteIntegrationUpper", handler |-> "std::exception"],
     [fn |-> "ExponentialMeanReversion::G",
      primitive |-> "semiInfiniteIntegrationUpper", handler |-> "std::exception"],
     [fn |-> "ExponentialMeanReversion::instantaneousDifferential(b_star)",
      primitive |-> "adaptiveCentralDifferentiation", handler |-> "none"],
     [fn |-> "ExponentialMeanReversion::instantaneousDifferential",
      primitive |-> "adaptiveCentralDifferentiation", handler |-> "none"]}

TradingLevels_optimalExit_stop_loss ==
    [fn |-> "TradingLevels::optimalExit(stop_loss)",
     primitive |-> "brentSolver", handler |-> "none",
     callback |-> "funcOptimalMeanReversionStopLossB",
     params |-> "ExitLevelStopLossParams", catch_delete |-> "none",
     site |-> ""]

TradingLevels_optimalExit ==
    [fn |-> "TradingLevels::optimalExit",
     primitive |-> "brentSolver", handler |-> "std::runtime_error",
     callback |-> "funcOptimalMeanReversionB",
     params |-> "ExitLevelParams", catch_delete |-> "ExitLevelParams",
     site |-> "TradingLevels::optimalExit without stop loss."]

TradingLevels_optimalEntryLower ==
    [fn |-> "TradingLevels::optimalEntryLower",
     primitive |-> "brentSolver", handler |-> "none",
     callback |-> "funcOptimalMeanReversionA",
     params |-> "EntryLevelParams", catch_delete |-> "none",
     site |-> ""]

TradingLevels_optimalEntryLower_stop_loss ==
    [fn |-> "TradingLevels::optimalEntryLower(stop_loss)",
     primitive |-> "brentSolver", handler |-> "none",
     callback |-> "funcOptimalMeanReversionStopLossA",
     params |-> "EntryLevelStopLossParams", catch_delete |-> "none",
     site |-> ""]

TradingLevels_optimalEntry_stop_loss ==
    [fn |-> "TradingLevels::optimalEntry(stop_loss)",
     primitive |-> "brentSolver", handler |-> "none",
     callback |-> "funcOptimalMeanReversionStopLossD",
     params |-> "EntryLevelStopLossParams", catch_delete |-> "none",
     site |-> ""]

TradingLevels_optimalEntry ==
    [fn |-> "TradingLevels::optimalEntry",
     primitive |-> "brentSolver", handler |-> "none",
     callback |-> "funcOptimalMeanReversionD",
     params |-> "EntryLevelParams", catch_delete |-> "none",
     site |-> ""]

TradingLevelsExponential_optimalExit_stop_loss ==
    [fn |-> "OrnsteinUhlenbeckTradingLevelsExponential::optimalExit(stop_loss)",
     primitive |-> "brentSolver", handler |-> "std::exception",
     callback |-> "funcOptimalMeanReversionB",
     params |-> "ExitLevelStopLossParams", catch_delete |-> "ExitLevelStopLossParams",
     site |-> "OrnsteinUhlenbeckTradingLevelsExponential::optimalExit with stop loss."]

TradingLevelsExponential_optimalExit ==
    [fn |-> "OrnsteinUhlenbeckTradingLevelsExponential::optimalExit",
     primitive |-> "brentSolver", handler |-> "std::exception",
     callback |-> "funcOptimalMeanReversionB",
     params |-> "ExitLevelParams", catch_delete |-> "ExitLevelParams",
     site |-> "OrnsteinUhlenbeckTradingLevelsExponential::optimalExit."]

TradingLevelsExponential_optimalEntryLower ==
    [fn |-> "OrnsteinUhlenbeckTradingLevelsExponential::optimalEntryLower",
     primitive |-> "brentSolver", handler |-> "std::exception",
     callback |-> "funcOptimalMeanReversionA",
     params |-> "EntryLevelParams", catch_delete |-> "ExitLevelParams",
     site |-> "OrnsteinUhlenbeckTradingLevelsExponential::optimalEntryLower without stop loss."]

TradingLevelsExponential_optimalEntryLower_stop_loss ==
    [fn |-> "OrnsteinUhlenbeckTradingLevelsExponential::optimalEntryLower(stop_loss)",
     primitive |-> "brentSolver", handler |-> "std::exception",
     callback |-> "funcOptimalMeanReversionStopLossA",
     params |-> "EntryLevelStopLossParams", catch_delete |-> "EntryLevelStopLossParams",
     site |-> "OrnsteinUhlenbeckTradingLevelsExponential::optimalEntryLower with stop loss."]

TradingLevelsExponential_optimalEntry_stop_loss ==
    [fn |-> "OrnsteinUhlenbeckTradingLevelsExponential::optimalEntry(stop_loss)",
     primitive |-> "brentSolver", handler |-> "std::exception",
     callback |-> "funcOptimalMeanReversionStopLossD",
     params |-> "EntryLevelStopLossParams", catch_delete |-> "EntryLevelStopLossParams",
     site |-> "OrnsteinUhlenbeckTradingLevelsExponential::optimalEntryLower with stop loss."]

TradingLevelsExponential_optimalEntry ==
    [fn |-> "OrnsteinUhlenbeckTradingLevelsExponential::optimalEntry",
     primitive |-> "brentSolver", handler |-> "std::exception",
     callback |-> "funcOptimalMeanReversionD",
     params |-> "EntryLevelParams", catch_delete |-> "EntryLevelParams",
     site |-> "OrnsteinUhlenbeckTradingLevelsExponential::optimalEntry without stop loss."]

hittingTimeDensityOrnsteinUhlenbeck ==
    [fn |-> "hittingTimeDensityOrnsteinUhlenbeck",
     primitive |-> "adaptiveIntegration", handler |-> "none"]

ContextFunctions ==
    OptimalMeanReversionFunctions \cup ExponentialMeanReversionFunctions \cup
    {TradingLevels_optimalExit_stop_loss,
     TradingLevels_optimalExit,
     TradingLevels_optimalEntryLower,
     TradingLevels_optimalEntryLower_stop_loss,
     TradingLevels_optimalEntry_stop_loss,
     TradingLevels_optimalEntry,
     TradingLevelsExponential_optimalExit_stop_loss,
     TradingLevelsExponential_optimalExit,
     TradingLevelsExponential_optimalEntryLower,
     TradingLevelsExponential_optimalEntryLower_stop_loss,
     TradingLevelsExponential_optimalEntry_stop_loss,
     TradingLevelsExponential_optimalEntry,
     hittingTimeDensityOrnsteinUhlenbeck}

\* The parameter type a root-equation callback casts its context to.
CallbackParams(callback) ==
    CASE callback = "funcOptimalMeanReversionA" -> "EntryLevelParams"
      [] callback = "funcOptimalMeanReversionStopLossA" -> "EntryLevelStopLossParams"
      [] callback = "funcOptimalMeanReversionStopLossD" -> "EntryLevelStopLossParams"
      [] callback = "funcOptimalMeanReversionStopLossB" -> "ExitLevelStopLossParams"
      [] callback = "funcOptimalMeanReversionD" -> "EntryLevelParams"
      [] callback = "funcOptimalMeanReversionB" -> "ExitLevelParams"

\* The standard base class of each failure (errors.h, <stdexcept>).
StdBase(e) ==
    CASE e = "NoMemoryError" -> "std::bad_alloc"
      [] e = "std::invalid_argument" -> "std::logic_error"
      [] e = "std::logic_error" -> "std::logic_error"
      [] OTHER -> "std::runtime_error"

\* The failures of a primitive: those check_function_status throws for a
\* failed GSL status, and for brentSolver also std::invalid_argument
\* (lower >= upper).
PrimitiveFailures(primitive) ==
    LET failures == {"IntegrationMaxIterationError", "NoMemoryError", "NoSolutionError",
                     "ZeroDivError", "SingularityError", "GslFailedError"}
    IN  IF primitive = "brentSolver"
        THEN failures \cup {"std::invalid_argument"}
        ELSE failures

\* catch (const handler&) matches the failure e.
Caught(handler, e) ==
    \/ handler = "std::exception"
    \/ handler = "std::runtime_error" /\ StdBase(e) = "std::runtime_error"

\* A call of the wrapper f whose primitive ends with outcome ("value": it
\* returns).  The bundle is deleted after the primitive returns, or in the
\* catch clause before the rethrow; a failure that no catch clause matches
\* leaves the wrapper at once.
CallWithContext(f, outcome) ==
    [fn |-> f.fn,
     outcome |-> outcome,
     created |-> 1,
     released |-> IF outcome = "value" \/ Caught(f.handler, outcome) THEN 1 ELSE 0,
     raised |-> IF outcome = "value" THEN "none" ELSE outcome]

\* One call of a wrapper.
CallContextFunction ==
    /\ \E f \in ContextFunctions :
          \E outcome \in {"value"} \cup PrimitiveFailures(f.primitive) :
              context' = CallWithContext(f, outcome)
    /\ UNCHANGED <<kcaVars, likelihood, solver>>

SpecContext == Init /\ [][CallContextFunction]_vars

(***************************************************************************)
(* Root finding and integration (solvers.cpp, integration.cpp,             *)
(* helpers.cpp) and the trading-level solver built on brentSolver          *)
(* (trading_levels.cpp, trading_levels_exponential.cpp,                    *)
(* entrypoint_optimal_trading_levels.cpp).                                 *)
(*                                                                         *)
(* Abscissae are integers, steps of a grid; values of the root equation    *)
(* are rationals.  The GSL routines are outside the repository: the model  *)
(* gives gsl_root_fsolver_set and gsl_root_test_interval their documented  *)
(* behaviour and lets gsl_root_fsolver_iterate take any step a bracketing  *)
(* method can take.  The custom GSL error handler only logs, so a GSL      *)
(* routine that fails returns its status.                                  *)
(*                                                                         *)
(* A call keeps nothing of the call before it: its solver, its context and *)
(* its result are its own.  Calls are therefore taken from the state in    *)
(* which none has been made.                                               *)
(***************************************************************************)
\* brentSolver: int iter = 0, max_iter = 100.
max_iter == 100

\* ~IntegrationState: the workspace is freed unless the pointer is null.
IntegrationState_destructor(workspace) ==
    IF workspace # "nullptr" THEN "freed" ELSE "nullptr"

\* A variant that never frees.
BrentSolverState_destructor_leaking(fsolver) == fsolver

\* ~BrentSolverState: the solver is freed unless the pointer is null.
BrentSolverState_destructor(fsolver) ==
    IF fsolver # "nullptr" THEN "freed" ELSE "nullptr"

\* check_function_status: the failure thrown for a status ("none": returns).
check_function_status(status, ignore_codes) ==
    IF status # "GSL_SUCCESS" /\ status \notin ignore_codes
    THEN CASE status = "GSL_EMAXITER" -> "IntegrationMaxIterationError"
           [] status = "GSL_ENOMEM" -> "NoMemoryError"
           [] status = "GSL_EBADFUNC" -> "NoSolutionError"
           [] status = "GSL_EZERODIV" -> "ZeroDivError"
           [] status = "GSL_ESING" -> "SingularityError"
           [] OTHER -> "GslFailedError"
    ELSE "none"

\* adaptiveIntegration / semiInfiniteIntegrationUpper, given the status
\* gsl_integration_qags / qagiu returns: GSL_EROUND is ignored.
\* The workspace is a local of the call, destroyed on the way out, and the
\* handler is restored before the status is checked.
adaptiveIntegration(status) ==
    LET failure == check_function_status(status, {"GSL_EROUND"})
    IN  [raised |-> failure,
         value |-> IF failure = "none" THEN "result" ELSE "none",
         workspace |-> IntegrationState_destructor("allocated"),
         gsl_error_handler |-> "old_handler"]

\* The behaviours of a root equation handed to the solver as a callback: a
\* line through zero at the abscissa zero with the given slope, not finite
\* at the abscissae poles; not finite anywhere; or a callback that throws,
\* as the root equations do when an integral inside them fails.
LinearEquation(zero, slope, poles) ==
    [kind |-> "linear", zero |-> zero, slope |-> slope, poles |-> poles, e |-> "none"]

RootEquations ==
    {LinearEquation(20001, <<1, 100000>>, {}),
     LinearEquation(20001, <<1, 1>>, {}),
     LinearEquation(0, <<1, 1>>, {}),
     LinearEquation(20001, <<1, 100000>>, {20000}),
     [kind |-> "nonfinite", zero |-> 0, slope |-> <<0, 1>>, poles |-> {}, e |-> "none"],
     [kind |-> "throws", zero |-> 0, slope |-> <<0, 1>>, poles |-> {},
      e |-> "IntegrationMaxIterationError"]}

\* What the callback of a trading-level function computes.  On an
\* ExponentialMeanReversion optimizer the stop-loss forms b, d and a throw
\* std::logic_error; any other callback evaluates a root equation.
RootEquationsOf(level, optimizer) ==
    IF /\ optimizer = "ExponentialMeanReversion"
       /\ level.callback \in {"funcOptimalMeanReversionStopLossA",
                              "funcOptimalMeanReversionStopLossD",
                              "funcOptimalMeanReversionStopLossB"}
    THEN {[kind |-> "throws", zero |-> 0, slope |-> <<0, 1>>, poles |-> {},
           e |-> "std::logic_error"]}
    ELSE RootEquations

\* One evaluation of the callback at x.
Evaluate(eq, x) ==
    CASE eq.kind = "throws" -> [outcome |-> "throw", e |-> eq.e, v |-> <<0, 1>>]
      [] eq.kind = "linear" /\ x \notin eq.poles ->
             [outcome |-> "value", e |-> "none", v |-> RatMul(eq.slope, Rat(x - eq.zero))]
      [] OTHER -> [outcome |-> "nan", e |-> "none", v |-> <<0, 1>>]

Finite(eq, x) == Evaluate(eq, x).outcome = "value"

\* The sign of a finite value of the root equation at x.
Sign(eq, x) ==
    LET n == Evaluate(eq, x).v[1]
    IN  IF n > 0 THEN 1 ELSE IF n < 0 THEN -1 ELSE 0

\* gsl_root_fsolver_set for the Brent solver: it evaluates the function at
\* both ends, reports a value that is not finite as GSL_EBADFUNC and ends
\* that do not straddle zero as GSL_EINVAL.  A callback that throws leaves
\* through the routine.
gsl_root_fsolver_set(eq, x_lower, x_upper) ==
    LET f_lower == Evaluate(eq, x_lower)
        f_upper == Evaluate(eq, x_upper)
        middle == (x_lower + x_upper) \div 2
    IN  IF f_lower.outcome = "throw"
        THEN [raised |-> f_lower.e, status |-> "none", root |-> middle,
              evaluations |-> 1]
        ELSE IF f_lower.outcome = "nan" \/ f_upper.outcome = "nan"
        THEN [raised |-> "none", status |-> "GSL_EBADFUNC", root |-> middle,
              evaluations |-> IF f_lower.outcome = "nan" THEN 1 ELSE 2]
        ELSE IF Sign(eq, x_lower) * Sign(eq, x_upper) > 0
        THEN [raised |-> "none", status |-> "GSL_EINVAL", root |-> middle,
              evaluations |-> 2]
        ELSE [raised |-> "none", status |-> "GSL_SUCCESS", root |-> middle,
              evaluations |-> 2]

\* gsl_root_test_interval(x_lower, x_upper, epsabs = 0, epsrel = 0.0001):
\* |x_upper - x_lower| < epsrel min(|x_lower|, |x_upper|), the minimum being
\* 0 when the interval contains the origin.
gsl_root_test_interval(x_lower, x_upper) ==
    LET epsrel == <<1, 10000>>
        min_abs == IF (x_lower > 0 /\ x_upper > 0) \/ (x_lower < 0 /\ x_upper < 0)
                   THEN IF Abs(x_lower) < Abs(x_upper) THEN Abs(x_lower)
                        ELSE Abs(x_upper)
                   ELSE 0
    IN  IF Abs(x_upper - x_lower) * epsrel[2] < epsrel[1] * min_abs
        THEN "GSL_SUCCESS"
        ELSE "GSL_CONTINUE"

\* gsl_root_fsolver_iterate followed by the reads of the root and of the
\* bracket.  A step replaces the bracket [x_lo, x_hi] by a narrower one
\* inside it whose one end is the new estimate of the root, and which keeps
\* a change of sign when the old one had one.  When the function is not
\* finite at a point the method tries, the iteration reports GSL_EBADFUNC;
\* then, and when there is no narrower bracket, the state of the solver is
\* left as it was.
IterateOutcomes(eq, x_lo, x_hi, root) ==
    LET narrower ==
            {b \in (x_lo..x_hi) \X (x_lo..x_hi) \X {"lower", "upper"} :
                /\ b[1] <= b[2]
                /\ b[2] - b[1] < x_hi - x_lo
                /\ Finite(eq, b[1]) /\ Finite(eq, b[2])
                /\ (b[1] = b[2]) => (Sign(eq, b[1]) = 0)
                /\ (Finite(eq, x_lo) /\ Finite(eq, x_hi)
                      /\ Sign(eq, x_lo) * Sign(eq, x_hi) <= 0)
                     => (Sign(eq, b[1]) * Sign(eq, b[2]) <= 0)}
        tried == {x \in x_lo..x_hi : ~Finite(eq, x)}
    IN  IF tried # {}
        THEN {[status |-> "GSL_EBADFUNC", x_lo |-> x_lo, x_hi |-> x_hi, root |-> root]}
        ELSE IF narrower = {}
        THEN {[status |-> "GSL_SUCCESS", x_lo |-> x_lo, x_hi |-> x_hi, root |-> root]}
        ELSE {[status |-> "GSL_SUCCESS", x_lo |-> b[1], x_hi |-> b[2],
               root |-> IF b[3] = "lower" THEN b[1] ELSE b[2]] : b \in narrower}

\* A variant of brentSolver that accepts an empty interval.
brentSolver_accepting_empty(eq, lower, upper, allocated) ==
    IF lower > upper
    THEN [raised |-> "std::invalid_argument", status |-> "none", root |-> 0,
          evaluations |-> 0, fsolver |-> "none",
          gsl_error_handler |-> "old_handler"]
    ELSE IF ~allocated
    THEN [raised |-> "NoMemoryError", status |-> "none", root |-> 0,
          evaluations |-> 0, fsolver |-> BrentSolverState_destructor("nullptr"),
          gsl_error_handler |-> "old_handler"]
    ELSE LET set == gsl_root_fsolver_set(eq, lower, upper)
             failure == IF set.raised # "none" THEN set.raised
                        ELSE check_function_status(set.status, {"GSL_EINVAL"})
         IN  [raised |-> failure, status |-> set.status, root |-> set.root,
              evaluations |-> set.evaluations,
              fsolver |-> IF failure # "none"
                          THEN BrentSolverState_destructor("allocated")
                          ELSE "allocated",
              gsl_error_handler |-> "custom_gsl_exception_handler"]

\* brentSolver up to its loop: the test of the interval, the allocation of
\* the solver, gsl_root_fsolver_set and the check of its status, of which
\* GSL_EINVAL is ignored.  The solver is a local destroyed when a failure
\* leaves the call; the custom handler is installed once the solver is
\* allocated and is still installed when a failure leaves the call.
brentSolver(eq, lower, upper, allocated) ==
    IF lower >= upper
    THEN [raised |-> "std::invalid_argument", status |-> "none", root |-> 0,
          evaluations |-> 0, fsolver |-> "none",
          gsl_error_handler |-> "old_handler"]
    ELSE IF ~allocated
    THEN [raised |-> "NoMemoryError", status |-> "none", root |-> 0,
          evaluations |-> 0, fsolver |-> BrentSolverState_destructor("nullptr"),
          gsl_error_handler |-> "old_handler"]
    ELSE LET set == gsl_root_fsolver_set(eq, lower, upper)
             failure == IF set.raised # "none" THEN set.raised
                        ELSE check_function_status(set.status, {"GSL_EINVAL"})
         IN  [raised |-> failure, status |-> set.status, root |-> set.root,
              evaluations |-> set.evaluations,
              fsolver |-> IF failure # "none"
                          THEN BrentSolverState_destructor("allocated")
                          ELSE "allocated",
              gsl_error_handler |-> "custom_gsl_exception_handler"]

\* The entry points whose trading-level class is part of the sources, each
\* with the function it calls and the call site its catch clause prints.
EntryPoints ==
    {[fn |-> "optimalExitLevelExponential(stop_loss)",
      level |-> TradingLevelsExponential_optimalExit_stop_loss,
      handler |-> "std::runtime_error",
      site |-> "optimalExitLevelExponential with stop loss."],
     [fn |-> "optimalExitLevelExponential",
      level |-> TradingLevelsExponential_optimalExit,
      handler |-> "std::runtime_error",
      site |-> "optimalExitLevelExponential without stop loss."],
     [fn |-> "optimalEntryLevelExponential",
      level |-> TradingLevelsExponential_optimalEntry,
      handler |-> "std::runtime_error",
      site |-> "optimalEntryLevelExponential without stop loss."],
     [fn |-> "optimalEntryLevelLowerExponential",
      level |-> TradingLevelsExponential_optimalEntryLower,
      handler |-> "std::runtime_error",
      site |-> "optimalEntryLevelLowerExponential."]}

\* What a caller can call: an entry point, a function of
\* OrnsteinUhlenbeckTradingLevelsExponential, or a function of TradingLevels,
\* the class that takes its optimizer as an argument.
SolverTargets ==
    {[entry |-> e.fn, entry_site |-> e.site, entry_handler |-> e.handler,
      level |-> e.level, optimizer |-> "ExponentialMeanReversion"] : e \in EntryPoints}
    \cup {[entry |-> "none", entry_site |-> "", entry_handler |-> "none", level |-> l,
           optimizer |-> "ExponentialMeanReversion"] :
             l \in {TradingLevelsExponential_optimalExit_stop_loss,
                    TradingLevelsExponential_optimalExit,
                    TradingLevelsExponential_optimalEntryLower,
                    TradingLevelsExponential_optimalEntryLower_stop_loss,
                    TradingLevelsExponential_optimalEntry_stop_loss,
                    TradingLevelsExponential_optimalEntry}}
    \cup {[entry |-> "none", entry_site |-> "", entry_handler |-> "none", level |-> l,
           optimizer |-> o] :
             l \in {TradingLevels_optimalExit_stop_loss, TradingLevels_optimalExit,
                    TradingLevels_optimalEntryLower,
                    TradingLevels_optimalEntryLower_stop_loss,
                    TradingLevels_optimalEntry_stop_loss, TradingLevels_optimalEntry},
             o \in {"OptimalMeanReversion", "ExponentialMeanReversion"}}

\* The brackets a trading-level function can compute from its arguments and
\* its model: away from the origin, around it, inverted, and empty.
BracketInputs ==
    {<<20000 - MaxWidth, 20000 + MaxWidth>>,
     <<0 - MaxWidth, MaxWidth>>,
     <<20000 + MaxWidth, 20000 - MaxWidth>>,
     <<20000, 20000>>}

\* The way out of a trading-level function and of an entry point for the
\* failure e: a catch clause that matches prints its call site, the one of
\* the trading-level function deletes the context through the cast written
\* in it, and both rethrow.
Unwind(s, e) ==
    LET in_level == Caught(s.level.handler, e)
        in_entry == s.entry # "none" /\ Caught(s.entry_handler, e)
    IN  [s EXCEPT
            !.pc = "done",
            !.raised = e,
            !.value = "none",
            !.released = IF in_level THEN 1 ELSE 0,
            !.deleted_as = IF in_level THEN s.level.catch_delete ELSE "none",
            !.diagnostics = (IF in_level THEN <<s.level.site>> ELSE <<>>)
                            \o (IF in_entry THEN <<s.entry_site>> ELSE <<>>)]

\* A call of a trading-level function, directly or through an entry point,
\* up to the loop of brentSolver.
CallTradingLevel ==
    /\ solver.pc = "idle"
    /\ \E target \in SolverTargets, bracket \in BracketInputs, allocated \in BOOLEAN :
          \E eq \in RootEquationsOf(target.level, target.optimizer) :
              LET r == brentSolver(eq, bracket[1], bracket[2], allocated)
                  s == [SolverIdle EXCEPT
                           !.call = "brentSolver",
                           !.entry = target.entry,
                           !.entry_site = target.entry_site,
                           !.entry_handler = target.entry_handler,
                           !.level = target.level,
                           !.optimizer = target.optimizer,
                           !.eq = eq,
                           !.lower = bracket[1],
                           !.upper = bracket[2],
                           !.x_lo = bracket[1],
                           !.x_hi = bracket[2],
                           !.root = r.root,
                           !.status = r.status,
                           !.evaluations = r.evaluations,
                           !.workspace = r.fsolver,
                           !.gsl_error_handler = r.gsl_error_handler,
                           !.read_as = IF r.evaluations > 0
                                       THEN CallbackParams(target.level.callback)
                                       ELSE "none"]
              IN  solver' = IF r.raised # "none"
                            THEN Unwind(s, r.raised)
                            ELSE [s EXCEPT !.pc = "iterating"]
    /\ UNCHANGED <<kcaVars, likelihood, context>>

\* One pass of the loop of brentSolver, and, when the loop ends, the return
\* of the root, before which the handler is restored and on which the solver
\* is destroyed, through the trading-level function, which deletes the
\* context, and through the entry point.
BrentSolverIterate ==
    /\ solver.pc = "iterating"
    /\ \E o \in IterateOutcomes(solver.eq, solver.x_lo, solver.x_hi, solver.root) :
          LET iter == solver.iter + 1
              status == gsl_root_test_interval(o.x_lo, o.x_hi)
              s == [solver EXCEPT !.iter = iter, !.x_lo = o.x_lo, !.x_hi = o.x_hi,
                                  !.root = o.root, !.status = status]
          IN  solver' = IF status = "GSL_CONTINUE" /\ iter < max_iter
                        THEN s
                        ELSE [s EXCEPT !.pc = "done", !.raised = "none",
                                       !.value = "root", !.released = 1,
                                       !.deleted_as = s.level.params,
                                       !.workspace = BrentSolverState_destructor(@),
                                       !.gsl_error_handler = "old_handler"]
    /\ UNCHANGED <<kcaVars, likelihood, context>>

\* The stop-loss forms of ExponentialMeanReversion, which only throw.
ExponentialStopLossForms ==
    {"ExponentialMeanReversion::b(stop_loss)",
     "ExponentialMeanReversion::d(stop_loss)",
     "ExponentialMeanReversion::V(stop_loss)",
     "ExponentialMeanReversion::a(stop_loss)",
     "ExponentialMeanReversion::instantaneousDifferential(stop_loss)"}

\* A direct call of a stop-loss form of ExponentialMeanReversion.
CallExponentialStopLossForm ==
    /\ solver.pc = "idle"
    /\ \E form \in ExponentialStopLossForms :
          solver' = [SolverIdle EXCEPT !.pc = "done", !.call = form,
                                       !.optimizer = "ExponentialMeanReversion",
                                       !.raised = "std::logic_error"]
    /\ UNCHANGED <<kcaVars, likelihood, context>>

\* A call of adaptiveIntegration or semiInfiniteIntegrationUpper.
CallIntegration ==
    /\ solver.pc = "idle"
    /\ \E primitive \in {"adaptiveIntegration", "semiInfiniteIntegrationUpper"},
          status \in {"GSL_SUCCESS", "GSL_EINVAL", "GSL_EBADFUNC", "GSL_EMAXITER",
                      "GSL_ENOMEM", "GSL_EZERODIV", "GSL_ESING", "GSL_EROUND",
                      "GSL_EFAILED"} :
          LET r == adaptiveIntegration(status)
          IN  solver' = [SolverIdle EXCEPT !.pc = "done", !.call = primitive,
                                           !.status = status,
                                           !.raised = r.raised,
                                           !.value = r.value,
                                           !.workspace = r.workspace,
                                           !.gsl_error_handler = r.gsl_error_handler]
    /\ UNCHANGED <<kcaVars, likelihood, context>>

SpecSolver ==
    Init /\ [][\/ CallTradingLevel
                \/ BrentSolverIterate
                \/ CallExponentialStopLossForm
                \/ CallIntegration]_vars

(***************************************************************************)
(* Simulation of the two models.  The values of a path are kept as the     *)
(* start and, for every later element, the draw the core equation was      *)
(* applied to; the arithmetic of the core equations is left out.           *)
(***************************************************************************)
\* GaussianDistribution::sample(size): size draws.  Its body is not part of
\* the sources; a request of more draws than the paths explored here is
\* only made after size - 1 has wrapped, for 2^32 - 1 draws, which is
\* taken to exhaust the memory.
GaussianDistribution_sample(size) ==
    IF size > MaxSize
    THEN {[raised |-> "std::bad_alloc", draws |-> <<>>]}
    ELSE {[raised |-> "none", draws |-> d] : d \in [1..size -> {Rat(-1), Rat(0), Rat(1)}]}

\* OrnsteinUhlenbeckModel::Simulate(start, size, t), size being an unsigned
\* int: size - 1 draws, and one value pushed after start for each draw.
\* For size 0 the subtraction wraps to 2^32 - 1, written here as the largest
\* integer there is.
OrnsteinUhlenbeckModel_Simulate(start, size, t) ==
    {IF sample.raised # "none"
     THEN [raised |-> sample.raised, vec |-> <<>>]
     ELSE [raised |-> "none",
           vec |-> <<[coreEquation |-> FALSE, x |-> start]>>
                   \o [n \in 1..Len(sample.draws) |->
                          [coreEquation |-> TRUE, x |-> sample.draws[n]]]] :
        sample \in GaussianDistribution_sample(
                       IF size >= 1 THEN size - 1 ELSE 2147483647)}

\* GeneralLinearModel::Simulate(start, size, t): size draws, and one value
\* pushed after start for each n < size.
GeneralLinearModel_Simulate(start, size, t) ==
    {IF sample.raised # "none"
     THEN [raised |-> sample.raised, vec |-> <<>>]
     ELSE [raised |-> "none",
           vec |-> <<[coreEquation |-> FALSE, x |-> start]>>
                   \o [n \in 1..size |->
                          [coreEquation |-> TRUE, x |-> sample.draws[n]]]] :
        sample \in GaussianDistribution_sample(size)}

\* simulateOrnsteinUhlenbeck(mu, alpha, sigma, start, size, t), or Simulate
\* called on a GeneralLinearModel.
CallSimulate ==
    /\ \E model \in {"OrnsteinUhlenbeckModel", "GeneralLinearModel"},
          start \in {Rat(0), Rat(1)}, size \in 0..MaxSize, t \in {1} :
          \E r \in (IF model = "OrnsteinUhlenbeckModel"
                    THEN OrnsteinUhlenbeckModel_Simulate(start, size, t)
                    ELSE GeneralLinearModel_Simulate(start, size, t)) :
              result' = [op |-> "simulate", raised |-> r.raised, what |-> <<>>,
                         model |-> model, start |-> start, size |-> size,
                         vec |-> r.vec]
    /\ UNCHANGED <<filter_state, held, blob, dimensions_blob, history, likelihood,
                   context, solver>>

SpecSimulate == Init /\ [][CallSimulate]_vars

(***************************************************************************)
(* Properties of the KCA filter.                                           *)
(***************************************************************************)
\* The kinds by which a call out of order is rejected.
Rejections == {NotInitialised, InvalidOperation}

\* The prior and the posterior of a KcaStates value.
PriorOf(k) == <<k.predicted_state_mean, k.predicted_state_covariance>>

PosteriorOf(k) ==
    <<k.current_state_mean, k.current_state_covariance,
      k.predicted_observation_mean, k.predicted_observation_covariance>>

\* C1: whenever predict or update is rejected with NotInitialised or
\* InvalidOperation, the state of the instance (every matrix and vector,
\* and both flags) is exactly what it was before the call.
C1_RejectedCallLeavesState ==
    [][(result'.op \in {"predict", "update"} /\ result'.raised \in Rejections)
          => filter_state' = filter_state]_vars

\* An update was rejected with InvalidOperation on an initialised instance.
C1_Witness ==
    /\ result.op = "update"
    /\ result.raised = InvalidOperation
    /\ filter_state.initialised
    /\ ~filter_state.priors_set

\* C2: on an initialised instance on which no predict has run since
\* initialise or since the last update, update raises InvalidOperation and
\* computes no posterior.
C2_UpdateRefusedWithoutPredict ==
    [][(result'.op = "update" /\ filter_state.initialised /\ history.phase = "ready")
          => /\ result'.raised = InvalidOperation
             /\ PosteriorOf(filter_state') = PosteriorOf(filter_state)]_vars

\* C3: predict on an instance that is not initialised raises NotInitialised
\* and computes no prior.
C3_PredictRefusedUninitialised ==
    [][(result'.op = "predict" /\ ~filter_state.initialised)
          => /\ result'.raised = NotInitialised
             /\ PriorOf(filter_state') = PriorOf(filter_state)
             /\ ~filter_state'.priors_set]_vars

\* A predict was rejected with NotInitialised on a constructed instance.
C3_Witness ==
    /\ result.op = "predict"
    /\ result.raised = NotInitialised
    /\ ~filter_state.initialised
    /\ history.phase = "new"

\* C4: every call that deviates from the order initialise -> (predict ->
\* update)* (anything before initialise, a second initialise, predict twice
\* in a row, update without a directly preceding predict) raises
\* NotInitialised or InvalidOperation.
C4_OnlyOrderedSequencesAccepted ==
    [][LET in_order == \/ history.phase = "new" /\ result'.op = "initialise"
                       \/ history.phase = "ready" /\ result'.op = "predict"
                       \/ history.phase = "predicted" /\ result'.op = "update"
       IN  (result'.op \in {"initialise", "predict", "update"} /\ ~in_order)
              => result'.raised \in Rejections]_vars

\* C5: priors_valid => initialised in every state reached through
\* construction, initialise, predict, update, set_filter_state and the
\* codec's deserialise.
C5_PriorsImplyInitialised ==
    /\ filter_state.priors_set => filter_state.initialised
    /\ held.priors_set => held.initialised

\* An instance with valid priors was installed by set_filter_state.
C5_Witness ==
    /\ result.op = "set_filter_state"
    /\ filter_state.priors_set
    /\ filter_state.initialised

\* C13: after initialise completes, initialised is true and priors_valid
\* is false, whatever the flags were before the call.
C13_InitialiseClearsPriors ==
    [][(result'.op = "initialise" /\ result'.raised = "none")
          => (filter_state'.initialised /\ ~filter_state'.priors_set)]_vars

\* C14: each successful predict leaves priors_valid true and each
\* successful update leaves priors_valid false.
C14_PredictSetsUpdateClearsPriors ==
    [][/\ (result'.op = "predict" /\ result'.raised = "none")
             => filter_state'.priors_set
       /\ (result'.op = "update" /\ result'.raised = "none")
             => (filter_state.priors_set /\ ~filter_state'.priors_set)]_vars

\* An update succeeded after a predict: the flag went from true to false.
C14_Witness ==
    /\ result.op = "update"
    /\ result.raised = "none"
    /\ ~filter_state.priors_set
    /\ history.phase = "ready"
    /\ history.depth >= 3

\* The kind of the state-machine violation KcaStates raises for predict and
\* for update in the state k ("none": no violation).
ViolationOfPredict(k) ==
    LET r == updatePredictedState(k)
    IN  IF r.raised \in Rejections THEN r.raised ELSE "none"

ViolationOfUpdate(k) ==
    LET r == updateCurrentState(k, Rat(0), Rat(1))
    IN  IF r.raised \in Rejections THEN r.raised ELSE "none"

\* C15: when predict or update called through the facade hits a
\* state-machine violation, the failure the caller receives has the kind
\* raised by the underlying state.
C15_FacadePreservesKind ==
    [][/\ (result'.op = "predict" /\ ViolationOfPredict(filter_state) # "none")
             => result'.raised = ViolationOfPredict(filter_state)
       /\ (result'.op = "update" /\ ViolationOfUpdate(filter_state) # "none")
             => result'.raised = ViolationOfUpdate(filter_state)]_vars

\* An update without valid priors, after an accepted predict and update,
\* came back from the facade as InvalidOperation.
C15_Witness ==
    /\ result.op = "update"
    /\ result.raised = InvalidOperation
    /\ ViolationOfUpdate(filter_state) = InvalidOperation
    /\ history.phase = "ready"
    /\ history.depth >= 2

\* C16: every state-machine violation rethrown by the facade, from predict
\* and from update alike, carries the facade's context together with the
\* underlying reason.
C16_RethrownViolationsExplained ==
    (\/ result.op = "predict" /\ result.raised = NotInitialised
     \/ result.op = "update" /\ result.raised = InvalidOperation)
        => /\ Len(result.what) = 2
           /\ result.what[1] \in
                 {"Unhandled error when updating the prior kinetic components state: ",
                  "Unhandled error when updating the posterior kinetic components state: "}

\* C25: predict changes nothing but the predicted state mean, the predicted
\* state covariance and priors_set: the posterior, the predicted
\* observation, the transition and observation parts and the flag
\* initialised are after the call what they were before it.
C25_PredictChangesOnlyPrior ==
    [][result'.op = "predict"
          => [filter_state' EXCEPT
                 !.predicted_state_mean = filter_state.predicted_state_mean,
                 !.predicted_state_covariance = filter_state.predicted_state_covariance,
                 !.priors_set = filter_state.priors_set] = filter_state]_vars

\* A predict was accepted after an update and computed a prior that differs
\* from the posterior it started from.
C25_Witness ==
    /\ result.op = "predict"
    /\ result.raised = "none"
    /\ history.depth >= 4
    /\ filter_state.priors_set
    /\ filter_state.predicted_state_mean # filter_state.current_state_mean

\* C27: an update that has passed the checks of the phase and then fails
\* leaves the whole KCA state as it was.
C27_FailedUpdateModifiesNothing ==
    [][(result'.op = "update" /\ result'.raised \notin ({"none"} \cup Rejections))
          => filter_state' = filter_state]_vars

\* An update failed in the matrix inversion and the priors are still valid.
C27_Witness ==
    /\ result.op = "update"
    /\ result.raised = "runtime_error"
    /\ filter_state.initialised
    /\ filter_state.priors_set

\* C29: the state decoded from the serialisation of a state is initialised
\* with an invalid prior whatever phase the serialised state was in: predict
\* is accepted on it, and update is rejected with InvalidOperation until
\* predict has run.
C29_DeserialisedStateAwaitsPredict ==
    \A g \in Garbage :
        LET r == KcaStatesJsonAdapter_deserialize(
                     KcaStatesJsonAdapter_serialize(held), Dims, g)
        IN  /\ r.raised = "none"
            /\ r.state.initialised
            /\ ~r.state.priors_set
            /\ updatePredictedState(r.state).raised = "none"
            /\ updatePredictedState(r.state).state.priors_set
            /\ \A observation \in ObservationInputs,
                  innovation_sigma \in InnovationSigmaInputs :
                  updateCurrentState(r.state, observation, innovation_sigma).raised
                      = InvalidOperation

\* The caller holds the state of an instance whose prior is valid.
C29_Witness ==
    /\ result.op = "get_filter_state"
    /\ history.heldPhase = "predicted"
    /\ held.initialised
    /\ held.priors_set

(***************************************************************************)
(* Properties of the KCA entry points.                                     *)
(***************************************************************************)
\* C17: get_updated_kca_state applied to a well-formed state blob runs one
\* predict followed by one update on the decoded state and returns the
\* serialisation of the result; it never fails with NotInitialised or
\* InvalidOperation, also on a blob it returned itself.
C17_UpdatedStateIsPredictThenUpdate ==
    (/\ result.op = "get_updated_kca_state"
     /\ KcaStatesJsonAdapter_deserialize(result.state, Dims, Rat(0)).raised = "none"
     /\ FilterSystemDimensionsJsonAdapter_deserialize(result.system_dimensions).raised
           = "none")
        => LET decoded == KcaStatesJsonAdapter_deserialize(result.state, Dims, Rat(0)).state
               r == updateCurrentState(updatePredictedState(decoded).state,
                                       result.observation, result.innovation_sigma)
           IN  /\ result.raised \notin Rejections
               /\ result.raised = r.raised
               /\ result.raised = "none"
                     => blob = KcaStatesJsonAdapter_serialize(r.state)

\* The call succeeded on a blob that an earlier call had returned.
C17_Witness ==
    /\ result.op = "get_updated_kca_state"
    /\ result.raised = "none"
    /\ history.blobDepth >= 4
    /\ blob # result.state

C7_GlIncrementalEqualsBatch ==
    likelihood.gl_seen >= 2 =>
        LET batch == GL_calculateComponents(Prefix(likelihood.series, likelihood.gl_seen))
        IN  /\ likelihood.gl = batch
            /\ GL_calculateParameters(likelihood.gl) = GL_calculateParameters(batch)

\* C22: the lag_squared of the General-Linear batch estimator is the sum of
\* the squares of the lagged observations x_0 .. x_{n-2}, every observation
\* of the series it ran on but the last.
C22_LagSquaredSumsLaggedObservations ==
    (likelihood.gl_seen > 0 /\ likelihood.gl_seen = likelihood.gl_from)
        => likelihood.gl.lag_squared
             = RatSum([i \in 1..(likelihood.gl_from - 1) |->
                          RatMul(likelihood.series[i], likelihood.series[i])])

\* C23: no component bundle, of the OU estimator or of the General-Linear
\* one, has n_obs < 2.
C23_BundlesHaveTwoObservations ==
    /\ likelihood.ou_seen > 0 => likelihood.ou.n_obs >= 2
    /\ likelihood.gl_seen > 0 => likelihood.gl.n_obs >= 2

(***************************************************************************)
(* Properties of the callback contexts.                                    *)
(***************************************************************************)
\* C10: every function that creates an opaque callback context releases it
\* exactly once before it returns and before it propagates a failure of the
\* integration, differentiation or root-finding call it wraps.
C10_ContextReleasedExactlyOnce ==
    context.fn # "none" => (context.created = 1 /\ context.released = 1)

(***************************************************************************)
(* Properties of the state codec.                                          *)
(***************************************************************************)
\* C8: for every well-formed state blob b, serialise(deserialise(b)) = b:
\* each of the six fields comes back unchanged.
C8_SerialiseDeserialiseIsIdentity ==
    (result.op = "deserialize" /\ result.raised = "none")
        => KcaStatesJsonAdapter_serialize(held) = blob

\* A well-formed blob taken from elsewhere was decoded.
C8_Witness ==
    /\ result.op = "deserialize"
    /\ result.raised = "none"
    /\ blob = BlobB
    /\ held.current_state_mean = <<Rat(1), Rat(2), Rat(3)>>

\* C9: every failure to decode a state blob or a dimensions blob (text that
\* is not valid JSON, a missing key, a wrongly typed value) is raised as
\* StateParse.
C9_DecodeFailuresAreStateParse ==
    (result.op \in {"deserialize", "deserialize_dimensions"} /\ result.raised # "none")
        => result.raised = StateParse

(***************************************************************************)
(* Properties of root finding, integration and the trading-level solver.   *)
(***************************************************************************)
\* C11: a root find that reaches the cap of 100 iterations, and an
\* integration whose routine reports that it ran out of subdivisions, raise
\* a failure and return no value.
C11_CapRaisesFailure ==
    /\ (/\ solver.call = "brentSolver"
        /\ solver.pc = "done"
        /\ solver.iter = max_iter
        /\ solver.status = "GSL_CONTINUE")
          => (solver.raised # "none" /\ solver.value = "none")
    /\ (/\ solver.call \in {"adaptiveIntegration", "semiInfiniteIntegrationUpper"}
        /\ solver.status = "GSL_EMAXITER")
          => (solver.raised = "IntegrationMaxIterationError" /\ solver.value = "none")

\* C12: a stop-loss operation on the exponential variant (a stop-loss form
\* of ExponentialMeanReversion, or a stop-loss level computation of
\* OrnsteinUhlenbeckTradingLevelsExponential) that has a bracket
\* lower < upper and the memory for its solver ends with the logic error
\* that says the operation is not applicable.
C12_ExponentialStopLossNotApplicable ==
    (/\ \/ solver.call \in ExponentialStopLossForms
        \/ /\ solver.call = "brentSolver"
           /\ solver.level.fn \in
                 {TradingLevelsExponential_optimalExit_stop_loss.fn,
                  TradingLevelsExponential_optimalEntryLower_stop_loss.fn,
                  TradingLevelsExponential_optimalEntry_stop_loss.fn}
     /\ solver.pc = "done"
     /\ solver.raised \notin {"std::invalid_argument", "NoMemoryError"})
        => solver.raised = "std::logic_error"

\* C18: a root find called with lower >= upper fails with
\* std::invalid_argument before the root equation is evaluated and before
\* any iteration, also when a trading-level function chose the interval.
C18_EmptyIntervalRejected ==
    (solver.call = "brentSolver" /\ solver.lower >= solver.upper)
        => /\ solver.pc = "done"
           /\ solver.raised = "std::invalid_argument"
           /\ solver.value = "none"
           /\ solver.iter = 0
           /\ solver.evaluations = 0

\* A trading-level function reached through its entry point computed an
\* empty interval and the root find refused it.
C18_Witness ==
    /\ solver.call = "brentSolver"
    /\ solver.pc = "done"
    /\ solver.raised = "std::invalid_argument"
    /\ solver.entry = "optimalEntryLevelExponential"
    /\ solver.lower = solver.upper

\* C19: a trading-level solver call that returns gives a value inside the
\* interval it chose at which the root equation is at most 1e-4 in absolute
\* value.
C19_ReturnedValueIsRoot ==
    (solver.call = "brentSolver" /\ solver.pc = "done" /\ solver.raised = "none")
        => /\ solver.lower <= solver.root
           /\ solver.root <= solver.upper
           /\ Finite(solver.eq, solver.root)
           /\ LET v == Evaluate(solver.eq, solver.root).v
              IN  Abs(v[1]) * 10000 <= v[2]

\* C20: an entry point that fails has printed exactly one diagnostic naming
\* a call site, and the caller receives the failure.
C20_OneDiagnosticPerFailure ==
    (/\ solver.call = "brentSolver"
     /\ solver.entry # "none"
     /\ solver.pc = "done"
     /\ solver.raised # "none")
        => /\ Len(solver.diagnostics) = 1
           /\ solver.value = "none"


\* C21: the workspace of a quadrature and the solver of a root find live
\* within one call: whenever the call has ended, by a return or by a
\* failure, what was allocated has been freed.
C21_WorkspaceFreedOnEveryExit ==
    /\ solver.pc = "idle" => solver.workspace = "none"
    /\ solver.pc = "done" => solver.workspace \in {"none", "nullptr", "freed"}
    /\ (solver.pc = "done" /\ solver.evaluations > 0) => solver.workspace = "freed"
    /\ (solver.pc = "done"
          /\ solver.call \in {"adaptiveIntegration", "semiInfiniteIntegrationUpper"})
            => solver.workspace = "freed"

\* A root find whose primitive failed after its solver was allocated.
C21_Witness ==
    /\ solver.pc = "done"
    /\ solver.call = "brentSolver"
    /\ solver.raised = "NoSolutionError"
    /\ solver.workspace = "freed"

\* C26: check_function_status raises a failure of the runtime-error kind for
\* every status that is not zero and not in the ignore list, and nothing for
\* a status that is zero or in the list.
C26_StatusFailuresAreRuntimeErrors ==
    (solver.pc = "done"
      /\ solver.call \in {"adaptiveIntegration", "semiInfiniteIntegrationUpper"})
        => IF solver.status \notin {"GSL_SUCCESS", "GSL_EROUND"}
           THEN /\ solver.raised # "none"
                /\ StdBase(solver.raised) = "std::runtime_error"
           ELSE solver.raised = "none"

\* C28: when a call of a numeric primitive has ended, by a return or by a
\* failure, the process-wide GSL error handler is the one that was installed
\* before the call.
C28_ErrorHandlerRestored ==
    solver.pc = "done" => solver.gsl_error_handler = "old_handler"

\* C30: a callback context is read and deleted only as the parameter type it
\* was created with: no trading-level function hands its context to a
\* callback or to a delete that casts it to another type, on a return or on
\* a failure.
C30_ContextKeepsItsType ==
    /\ solver.read_as \in {"none", solver.level.params}
    /\ solver.deleted_as \in {"none", solver.level.params}

\* C24: a simulation asked for size values returns a path of exactly size
\* values, for the Ornstein-Uhlenbeck model and for the general linear
\* model.
C24_SimulateReturnsSizeValues ==
    result.op = "simulate"
        => /\ result.raised = "none"
           /\ Len(result.vec) = result.size

====
